---- MODULE Spec2Model ----
(***************************************************************************)
(* QuikChat socket handler (backend/src/socket/socketHandler.js, the       *)
(* second half of src/backend/src/services/PaymentService.js).             *)
(*                                                                         *)
(* Every `await` of a handler is a point where other handlers run, so a    *)
(* handler is a sequence of actions, one per awaited call: the action      *)
(* applies the awaited call's effect and runs the handler up to its next   *)
(* await.  An awaited collaborator call either returns or throws; the      *)
(* outcome is the action's input `ok`.                                     *)
(*                                                                         *)
(* ChatService, UserService and the PaymentService methods the handlers    *)
(* call (acceptPayment, createChatPayment, createExtensionPayment) are not *)
(* among the source files; what they do when they return is taken from     *)
(* the specification (sections 3, 4.3, 4.4, 4.6).                          *)
(***************************************************************************)
EXTENDS Integers, FiniteSets, Sequences, TLC

\* ------------------------------------------------------------------ bounds
MaxConns == 2
MaxRequests == 1
MaxAccepts == 2
MaxMsgs == 2
MaxExtends == 1
MaxTime == 1
MaxDuration == 1
MaxCalls == 1
MaxEvents == 3
MaxWithdrawals == 2

Conns == 1..MaxConns
Requests == 1..MaxRequests
Accepts == 1..MaxAccepts
Msgs == 1..MaxMsgs
Extends == 1..MaxExtends
Durations == 1..MaxDuration
CallIds == 1..MaxCalls
Withdrawals == 1..MaxWithdrawals

\* identities known to the token issuer: a requester and an earner
Users == {"u1", "u2"}
UserSeq == <<"u1", "u2">>
Earners == {"u2"}
\* socket.handshake.auth.token: a token of a user, no token, a token that
\* does not verify
Tokens == Users \cup {"none", "bad"}
NoUser == "undefined"

\* chat 0 is a free chat opened outside the socket handler; chat r (r a
\* request id) is the private paid chat of request r
FreeChat == 0
ChatIds == {FreeChat} \cup Requests

VARIABLES
    cstate,         \* per connection: where its middleware/disconnect handler is
    token,          \* per connection: socket.handshake.auth.token
    userId,         \* per connection: socket.userId
    rooms,          \* per connection: socket.rooms
    staleClose,     \* connections that closed while another, connected one was canonical
    redisSocketId,  \* redis hash user:<id>, field socketId
    redisStatus,    \* redis hash user:<id>, field status
    redisLastSeen,  \* users whose hash has a lastSeen field
    emitted,        \* every event emitted so far, with its recipients
    now,            \* wall-clock time, in minutes
    requests,       \* payment sessions, by request id
    chats,          \* chats in storage
    accepts,        \* accept-chat-request handler invocations
    timers,         \* setTimeout callbacks scheduled by startChatTimer
    msgs,           \* send-message handler invocations
    saved,          \* messages in storage, in commit order
    lastMessage,    \* per chat: its last-message reference
    extensions,     \* extend-chat invocations and their extension payments
    fanout,         \* messages in the order their new-message event was emitted
    uncaught,       \* handler invocations whose failure no catch received
    calls,          \* calls, by call id
    nEvents,        \* number of call and presence events handled so far
    leaveSent,      \* leave-chat events clients emitted: <<connection, chat>>
    wallet,         \* the user document's wallet, in the database
    withdrawals     \* processWithdrawal invocations

connVars == <<cstate, token, userId, rooms, staleClose>>
redisVars == <<redisSocketId, redisStatus, redisLastSeen>>
chatVars == <<requests, chats, accepts, timers, msgs, saved, fanout, lastMessage, extensions>>
callVars == <<calls, nEvents>>
walletVars == <<wallet, withdrawals>>
vars == <<connVars, redisVars, emitted, now, chatVars, uncaught, callVars, leaveSent, walletVars>>

\* ------------------------------------------------------------ rooms, events
UserRoom(u) == <<"user", u>>
ChatRoom(k) == <<"chat", ToString(k)>>
SockRoom(c) == <<"sock", ToString(c)>>

\* sockets of the namespace: the middleware let them in, they have not closed
Connected(c) == cstate[c] = "connected"

\* io.to(room): every connected socket in the room
InRoom(room) == {d \in Conns : Connected(d) /\ room \in rooms[d]}
\* socket.to(room): the same, except the sender
OthersInRoom(c, room) == InRoom(room) \ {c}
\* socket.broadcast: every connected socket except the sender
Broadcast(c) == {d \in Conns : Connected(d)} \ {c}

\* an emitted event: its name, the handler that emitted it, its recipients,
\* the chat and the request/message/minutes it carries
Ev(ev, kind, id, to, chat, arg) ==
    [ev |-> ev, kind |-> kind, id |-> id, to |-> to, chat |-> chat, arg |-> arg]

Emit(evs) == emitted' = emitted \cup evs

\* an async handler without try/catch whose awaited call threw: the
\* rejection of the handler's promise, which nothing handles
Unhandled(handler, c) == [handler |-> handler, sock |-> c]

\* ------------------------------------------------------- auth middleware
\* jwt.verify(token, secret): the decoded userId, or a throw
VerifyOk(tk) == tk \in Users

\* io.on('connection', socket => ...): the synchronous part, run once next()
\* was called without an error
OnConnection(c) ==
    /\ cstate' = [cstate EXCEPT ![c] = "connected"]
    /\ rooms' = [rooms EXCEPT ![c] = {SockRoom(c), UserRoom(userId[c])}]
    /\ Emit({Ev("connected", "sock", c, {c}, FreeChat, 0),
             Ev("user-status-online", "sock", c, Broadcast(c), FreeChat, 0)})

\* a bug the middleware could have: its catch calls next() without an error
AuthMiddlewareCatchPasses(c, tk) ==
    /\ cstate[c] = "idle"
    /\ token' = [token EXCEPT ![c] = tk]
    /\ IF tk = "none"
       THEN /\ cstate' = [cstate EXCEPT ![c] = "rejected"]
            /\ UNCHANGED <<userId, rooms, emitted>>
       ELSE IF ~VerifyOk(tk)
       THEN /\ OnConnection(c)
            /\ UNCHANGED userId
       ELSE /\ userId' = [userId EXCEPT ![c] = tk]
            /\ cstate' = [cstate EXCEPT ![c] = "authSocketId"]
            /\ UNCHANGED <<rooms, emitted>>
    /\ UNCHANGED <<staleClose, redisVars, now, leaveSent, walletVars, uncaught, callVars, chatVars>>

\* io.use(async (socket, next) => ...), up to the first await
AuthMiddleware(c, tk) ==
    /\ cstate[c] = "idle"
    /\ token' = [token EXCEPT ![c] = tk]
    /\ IF tk = "none" \/ ~VerifyOk(tk)
       THEN \* next(new Error('Authentication error'))
            /\ cstate' = [cstate EXCEPT ![c] = "rejected"]
            /\ UNCHANGED userId
       ELSE /\ userId' = [userId EXCEPT ![c] = tk]
            /\ cstate' = [cstate EXCEPT ![c] = "authSocketId"]
    /\ UNCHANGED <<rooms, staleClose, redisVars, emitted, now, leaveSent, walletVars, uncaught, callVars, chatVars>>

\* await redisClient.hSet(`user:${socket.userId}`, 'socketId', socket.id)
AuthSocketIdSet(c, ok) ==
    /\ cstate[c] = "authSocketId"
    /\ IF ok
       THEN /\ redisSocketId' = [redisSocketId EXCEPT ![userId[c]] = c]
            /\ cstate' = [cstate EXCEPT ![c] = "authStatus"]
       ELSE /\ cstate' = [cstate EXCEPT ![c] = "rejected"]
            /\ UNCHANGED redisSocketId
    /\ UNCHANGED <<token, userId, staleClose, rooms, redisStatus, redisLastSeen, emitted, now, leaveSent, walletVars, uncaught, callVars, chatVars>>

\* await redisClient.hSet(`user:${socket.userId}`, 'status', 'online')
AuthStatusSet(c, ok) ==
    /\ cstate[c] = "authStatus"
    /\ IF ok
       THEN /\ redisStatus' = [redisStatus EXCEPT ![userId[c]] = "online"]
            /\ cstate' = [cstate EXCEPT ![c] = "authExpire"]
       ELSE /\ cstate' = [cstate EXCEPT ![c] = "rejected"]
            /\ UNCHANGED redisStatus
    /\ UNCHANGED <<token, userId, staleClose, rooms, redisSocketId, redisLastSeen, emitted, now, leaveSent, walletVars, uncaught, callVars, chatVars>>

\* await redisClient.expire(...); next()
AuthExpireSet(c, ok) ==
    /\ cstate[c] = "authExpire"
    /\ IF ok
       THEN OnConnection(c)
       ELSE /\ cstate' = [cstate EXCEPT ![c] = "rejected"]
            /\ UNCHANGED <<rooms, emitted>>
    /\ UNCHANGED <<token, userId, staleClose, redisVars, now, leaveSent, walletVars, uncaught, callVars, chatVars>>

\* ------------------------------------------------------------- disconnect
\* what the close would be if socket.io kept the socket in its rooms until
\* the 'disconnect' handler's own leave loop
DisconnectKeepsRooms(c) ==
    /\ cstate[c] = "connected"
    /\ cstate' = [cstate EXCEPT ![c] = "discStatus"]
    /\ calls' = [i \in CallIds |->
          IF calls[i].state \in {"ringing", "accepted"} /\ c \in calls[i].parties
          THEN [calls[i] EXCEPT !.droppedBy = @ \cup {c}]
          ELSE calls[i]]
    /\ UNCHANGED <<token, userId, rooms, staleClose, redisVars, emitted, now, leaveSent, walletVars, uncaught,
                   nEvents, chatVars>>

\* The socket closes: socket.io removes it from its rooms and from the
\* namespace, then runs the 'disconnect' handler up to its first await.
\* staleClose records whether another connection of the same identity was
\* the canonical one, and connected, at that moment; droppedBy records, for
\* a call that was ringing or accepted, that a party's connection closed.
Disconnect(c) ==
    /\ cstate[c] = "connected"
    /\ cstate' = [cstate EXCEPT ![c] = "discStatus"]
    /\ rooms' = [rooms EXCEPT ![c] = {}]
    /\ staleClose' = IF /\ redisSocketId[userId[c]] \in Conns \ {c}
                         /\ Connected(redisSocketId[userId[c]])
                      THEN staleClose \cup {c} ELSE staleClose
    /\ calls' = [i \in CallIds |->
          IF calls[i].state \in {"ringing", "accepted"} /\ c \in calls[i].parties
          THEN [calls[i] EXCEPT !.droppedBy = @ \cup {c}]
          ELSE calls[i]]
    /\ UNCHANGED <<token, userId, redisVars, emitted, now, leaveSent, walletVars, uncaught, nEvents, chatVars>>

\* await redisClient.hSet(`user:${socket.userId}`, 'status', 'offline');
\* the handler has no try/catch: a throw ends it
DisconnectStatusSet(c, ok) ==
    /\ cstate[c] = "discStatus"
    /\ IF ok
       THEN /\ redisStatus' = [redisStatus EXCEPT ![userId[c]] = "offline"]
            /\ cstate' = [cstate EXCEPT ![c] = "discLastSeen"]
       ELSE /\ cstate' = [cstate EXCEPT ![c] = "closed"]
            /\ UNCHANGED redisStatus
    /\ UNCHANGED <<token, userId, staleClose, rooms, redisSocketId, redisLastSeen, emitted, now, leaveSent, walletVars, uncaught, callVars, chatVars>>

\* a bug the handler could have: it clears the expiry timers of the chats
\* the disconnecting identity takes part in
DisconnectLastSeenSetClearsTimers(c, ok) ==
    /\ cstate[c] = "discLastSeen"
    /\ cstate' = [cstate EXCEPT ![c] = "closed"]
    /\ IF ok
       THEN /\ redisLastSeen' = redisLastSeen \cup {userId[c]}
            /\ Emit({Ev("user-status-offline", "sock", c, Broadcast(c), FreeChat, 0)})
            /\ rooms' = [rooms EXCEPT ![c] = @ \cap {SockRoom(c)}]
       ELSE UNCHANGED <<redisLastSeen, emitted, rooms>>
    /\ timers' = [a \in Accepts |->
          IF timers[a].pc = "pending" /\ userId[c] \in chats[timers[a].chat].participants
          THEN [timers[a] EXCEPT !.pc = "unset"]
          ELSE timers[a]]
    /\ UNCHANGED <<token, userId, staleClose, redisSocketId, redisStatus, now, leaveSent, walletVars, uncaught,
                   callVars, requests, chats, accepts, msgs, saved, fanout, lastMessage,
                   extensions>>

\* await redisClient.hSet(..., 'lastSeen', ...); socket.broadcast.emit(
\* 'user-status', offline); socket.rooms.forEach(leave unless socket.id)
DisconnectLastSeenSet(c, ok) ==
    /\ cstate[c] = "discLastSeen"
    /\ cstate' = [cstate EXCEPT ![c] = "closed"]
    /\ IF ok
       THEN /\ redisLastSeen' = redisLastSeen \cup {userId[c]}
            /\ Emit({Ev("user-status-offline", "sock", c, Broadcast(c), FreeChat, 0)})
            /\ rooms' = [rooms EXCEPT ![c] = @ \cap {SockRoom(c)}]
       ELSE UNCHANGED <<redisLastSeen, emitted, rooms>>
    /\ UNCHANGED <<token, userId, staleClose, redisSocketId, redisStatus, now, leaveSent, walletVars, uncaught, callVars, chatVars>>

\* ---------------------------------------------------------------- join-chat
\* socket.on('join-chat', async chatId => ...): socket.join, then the awaited
\* ChatService.updateUserPresence, then user-joined to the others in the room.
\* The handler has no try/catch: a throw of updateUserPresence ends it after
\* the join, as a rejection nothing handles.
JoinChat(c, k, ok) ==
    /\ Connected(c)
    /\ rooms' = [rooms EXCEPT ![c] = @ \cup {ChatRoom(k)}]
    /\ leaveSent' = leaveSent \ {<<c, k>>}
    /\ IF ok
       THEN /\ Emit({Ev("user-joined", "sock", c, OthersInRoom(c, ChatRoom(k)), k, 0)})
            /\ UNCHANGED uncaught
       ELSE /\ uncaught' = uncaught \cup {Unhandled("join-chat", c)}
            /\ UNCHANGED emitted
    /\ UNCHANGED <<cstate, token, userId, staleClose, redisVars, now, walletVars, callVars, chatVars>>

\* ---------------------------------------------------------------- leave-chat
\* The chat view emits 'leave-chat' for the chat it joined when it
\* unmounts.  The connection
\* handler registers no listener for it, so the server does nothing:
\* the socket stays in the room and nothing is emitted.  leaveSent keeps
\* the leave-chat events of a connection that has not joined the room again.
LeaveChat(c, k) ==
    /\ Connected(c)
    /\ ChatRoom(k) \in rooms[c]
    /\ leaveSent' = leaveSent \cup {<<c, k>>}
    /\ UNCHANGED <<connVars, redisVars, emitted, now, chatVars, uncaught, callVars,
                   walletVars>>

\* ------------------------------------------------------------------- typing
\* socket.on('typing'): typing-indicator to the others in the chat's room
Typing(c, k, isTyping) ==
    /\ Connected(c)
    /\ Emit({Ev("typing-indicator", "sock", c, OthersInRoom(c, ChatRoom(k)), k,
                IF isTyping THEN 1 ELSE 0)})
    /\ UNCHANGED <<connVars, redisVars, now, leaveSent, walletVars, uncaught, callVars, chatVars>>

\* --------------------------------------------------------------------- calls
\* a call: what call-user created, and what happened to it since.  The
\* handlers keep no call state; `state` follows the events handled for the
\* call id (ringing on call-user, accepted / rejected / ended on the first
\* accept-call / reject-call / end-call after it).
\* parties: the caller's connection and the connections that got
\* incoming-call; joined: the connections that joined the call's room.  The
\* other fields record what held when an event of the call was handled.
NoCall == [state |-> "none", caller |-> 0, callee |-> NoUser, parties |-> {},
           joined |-> {}, calleeOnline |-> FALSE, kindEnabled |-> FALSE,
           droppedBy |-> {}, strayAnswer |-> FALSE, straySignal |-> FALSE,
           lateEvent |-> FALSE]

\* end-call or reject-call was handled for the call
Discarded(i) == calls[i].state \in {"ended", "rejected"}

\* the room of a call: socket.join(callId)
CallRoom(i) == <<"call", ToString(i)>>

\* roles a user record has; only 'female_earner' is named by the handler
Roles == {"female_earner", "user"}

\* one more call or presence event that emits is handled
CountEvent ==
    /\ nEvents < MaxEvents
    /\ nEvents' = nEvents + 1

\* socket.on('call-user'): `await UserService.getUser(userId)`, the check of
\* the callee's services for a female_earner, the call id, incoming-call to
\* the others in the callee's user room, call-initiated to the caller.  The
\* handler has one await and no try/catch.  `ok`: getUser returned a user
\* (a throw, or the TypeError on a null user, is a rejection nothing
\* handles); role, enabled: the user's role and services[type].  The
\* handler does not read the callee's presence.
CallUser(c, u, role, enabled, ok) ==
    /\ Connected(c)
    /\ CountEvent
    /\ IF ~ok
       THEN /\ uncaught' = uncaught \cup {Unhandled("call-user", c)}
            /\ UNCHANGED <<emitted, calls>>
       ELSE IF role = "female_earner" /\ ~enabled
       THEN /\ Emit({Ev("error", "call-user", c, {c}, FreeChat, 0)})
            /\ UNCHANGED <<uncaught, calls>>
       ELSE \E i \in CallIds :
            /\ calls[i].state = "none"
            /\ \A j \in CallIds : j < i => calls[j].state # "none"
            /\ calls' = [calls EXCEPT ![i] =
                  [@ EXCEPT !.state = "ringing", !.caller = c, !.callee = u,
                            !.parties = {c} \cup OthersInRoom(c, UserRoom(u)),
                            !.calleeOnline = \/ InRoom(UserRoom(u)) # {}
                                             \/ redisStatus[u] \notin {"offline", "absent"},
                            !.kindEnabled = enabled]]
            /\ Emit({Ev("incoming-call", "call-user", c, OthersInRoom(c, UserRoom(u)), FreeChat, i),
                     Ev("call-initiated", "call-user", c, {c}, FreeChat, i)})
            /\ UNCHANGED uncaught
    /\ UNCHANGED <<connVars, redisVars, now, leaveSent, walletVars, chatVars>>

\* socket.on('accept-call'): call-accepted to the call's room, whatever the
\* call id names
AcceptCall(c, i) ==
    /\ Connected(c)
    /\ CountEvent
    /\ Emit({Ev("call-accepted", "accept-call", c, InRoom(CallRoom(i)), FreeChat, i)})
    /\ calls' = [calls EXCEPT ![i] =
          IF @.state = "ringing" THEN [@ EXCEPT !.state = "accepted"]
          ELSE [@ EXCEPT !.strayAnswer = @ \/ InRoom(CallRoom(i)) # {},
                         !.lateEvent = @ \/ (Discarded(i) /\ InRoom(CallRoom(i)) # {})]]
    /\ UNCHANGED <<connVars, redisVars, now, leaveSent, walletVars, chatVars, uncaught>>

\* socket.on('reject-call'): call-rejected to the call's room
RejectCall(c, i) ==
    /\ Connected(c)
    /\ CountEvent
    /\ Emit({Ev("call-rejected", "reject-call", c, InRoom(CallRoom(i)), FreeChat, i)})
    /\ calls' = [calls EXCEPT ![i] =
          IF @.state = "ringing" THEN [@ EXCEPT !.state = "rejected"]
          ELSE [@ EXCEPT !.strayAnswer = @ \/ InRoom(CallRoom(i)) # {}]]
    /\ UNCHANGED <<connVars, redisVars, now, leaveSent, walletVars, chatVars, uncaught>>

\* socket.on('join-call'): socket.join(callId)
JoinCall(c, i) ==
    /\ Connected(c)
    /\ rooms' = [rooms EXCEPT ![c] = @ \cup {CallRoom(i)}]
    /\ calls' = [calls EXCEPT ![i].joined = @ \cup {c}]
    /\ UNCHANGED <<cstate, token, userId, staleClose, redisVars, emitted, now, leaveSent, walletVars, chatVars,
                   uncaught, nEvents>>

\* socket.on('call-signal'): call-signal to the others in the call's room.
\* straySignal: it reached somebody although the sender had not joined the
\* room or the call was not accepted; lateEvent: an event of the call
\* reached somebody after end-call or reject-call.
CallSignal(c, i) ==
    /\ Connected(c)
    /\ CountEvent
    /\ Emit({Ev("call-signal", "call-signal", c, OthersInRoom(c, CallRoom(i)), FreeChat, i)})
    /\ calls' = [calls EXCEPT
          ![i].straySignal =
             @ \/ (/\ OthersInRoom(c, CallRoom(i)) # {}
                   /\ ~(CallRoom(i) \in rooms[c] /\ calls[i].state = "accepted")),
          ![i].lateEvent = @ \/ (Discarded(i) /\ OthersInRoom(c, CallRoom(i)) # {})]
    /\ UNCHANGED <<connVars, redisVars, now, leaveSent, walletVars, chatVars, uncaught>>

\* socket.on('end-call'): call-ended to the call's room
EndCall(c, i) ==
    /\ Connected(c)
    /\ CountEvent
    /\ Emit({Ev("call-ended", "end-call", c, InRoom(CallRoom(i)), FreeChat, i)})
    /\ calls' = [calls EXCEPT
          ![i].state = IF @ \in {"ringing", "accepted"} THEN "ended" ELSE @,
          ![i].lateEvent = @ \/ (Discarded(i) /\ InRoom(CallRoom(i)) # {})]
    /\ UNCHANGED <<connVars, redisVars, now, leaveSent, walletVars, chatVars, uncaught>>

\* ------------------------------------------------- read-receipt, presence
\* socket.on('read-receipt'): `await ChatService.markAsRead`, then
\* message-read to the others in the chat's room; no try/catch
ReadReceipt(c, k, ok) ==
    /\ Connected(c)
    /\ CountEvent
    /\ IF ok
       THEN /\ Emit({Ev("message-read", "read-receipt", c, OthersInRoom(c, ChatRoom(k)), k, 0)})
            /\ UNCHANGED uncaught
       ELSE /\ uncaught' = uncaught \cup {Unhandled("read-receipt", c)}
            /\ UNCHANGED emitted
    /\ UNCHANGED <<connVars, redisVars, now, leaveSent, walletVars, chatVars, calls>>

\* the statuses a client sets with update-presence
PresenceStatuses == {"away"}

\* socket.on('update-presence'): `await hSet status`, `await hSet
\* customStatus` when one is given, then presence-update to every other
\* socket; no try/catch.  ok1, ok2: the first and the second hSet returned.
\* The hash's customStatus field is read by no handler and is no variable.
UpdatePresence(c, status, custom, ok1, ok2) ==
    /\ Connected(c)
    /\ CountEvent
    /\ redisStatus' = IF ok1 THEN [redisStatus EXCEPT ![userId[c]] = status] ELSE redisStatus
    /\ IF ok1 /\ (custom => ok2)
       THEN /\ Emit({Ev("presence-update", "update-presence", c, Broadcast(c), FreeChat, 0)})
            /\ UNCHANGED uncaught
       ELSE /\ uncaught' = uncaught \cup {Unhandled("update-presence", c)}
            /\ UNCHANGED emitted
    /\ UNCHANGED <<connVars, redisSocketId, redisLastSeen, now, leaveSent, walletVars, chatVars, calls>>

\* ------------------------------------------------- collaborators (storage)
NoRequest == [status |-> "none", user |-> NoUser, earner |-> NoUser, duration |-> 0]
NoChat == [exists |-> FALSE, type |-> "none", participants |-> {}, earner |-> NoUser,
           ended |-> FALSE, expiresAt |-> 0, totalDuration |-> 0]
\* the free chat: u1 takes part, nobody in the role of earner
TheFreeChat == [exists |-> TRUE, type |-> "group", participants |-> {"u1"},
                earner |-> NoUser, ended |-> FALSE, expiresAt |-> 0, totalDuration |-> 0]

\* ChatService.checkChatTimeRemaining(chatId): the remaining time of a paid
\* chat is time-based and is zero for an absent or ended chat (spec 4.3)
RemainingTime(k) ==
    IF chats[k].exists /\ ~chats[k].ended /\ chats[k].expiresAt > now
    THEN chats[k].expiresAt - now
    ELSE 0

checkChatTimeRemaining(k) == RemainingTime(k) > 0

\* ChatService.createPrivateChat(requestId): the chat room of the request,
\* created on the first call (spec 4.6: "creates/activates the ChatRoom");
\* the authorization names one room (spec 3), so the request has one chat
createPrivateChat(r) ==
    IF chats[r].exists
    THEN chats[r]
    ELSE [exists |-> TRUE, type |-> "private_paid",
          participants |-> {requests[r].user, requests[r].earner},
          earner |-> requests[r].earner, ended |-> FALSE,
          expiresAt |-> now + requests[r].duration,
          totalDuration |-> requests[r].duration]

\* ChatService.endChat(chatId): the chat is ended
endChat(k) == [chats EXCEPT ![k].ended = TRUE]

\* --------------------------------------------------- request-private-chat
\* socket.on('request-private-chat'): UserService.getUser(earnerId), the
\* isActive check, PaymentService.createChatPayment, payment-request to the
\* requester and chat-request to the earner's user room.  Nothing the
\* handler reads between its awaits is written by another handler, so it is
\* one action; `ok` is whether both awaited calls returned, `active` is
\* earner.earnerProfile.isActive.  An earnerId without an earner profile
\* throws a TypeError, caught like any throw.
RequestPrivateChat(c, r, e, d, active, ok) ==
    /\ Connected(c)
    /\ requests[r].status = "none"
    /\ \A q \in Requests : q < r => requests[q].status # "none"
    /\ IF ok /\ e \in Earners /\ active
       THEN /\ requests' = [requests EXCEPT ![r] =
                  [status |-> "pending", user |-> userId[c], earner |-> e, duration |-> d]]
            /\ Emit({Ev("payment-request", "sock", c, {c}, FreeChat, r),
                     Ev("chat-request", "sock", c, OthersInRoom(c, UserRoom(e)), FreeChat, r)})
       ELSE /\ Emit({Ev("error", "sock", c, {c}, FreeChat, r)})
            /\ UNCHANGED requests
    /\ UNCHANGED <<connVars, redisVars, now, leaveSent, walletVars, uncaught, callVars, chats, accepts, timers, msgs, saved, fanout,
                   lastMessage, extensions>>

\* ---------------------------------------------------- accept-chat-request
IdleAccept == [pc |-> "idle", sock |-> 0, req |-> 0, paid |-> FALSE, created |-> FALSE]
NoTimer == [pc |-> "unset", chat |-> 0, due |-> 0, endedAt |-> 0]

\* socket.emit from handler `kind`/`id` running on socket c
ToSelf(c) == {c} \cap {d \in Conns : Connected(d)}

\* socket.on('accept-chat-request') up to `await PaymentService.acceptPayment`
AcceptChatRequest(a, c, r) ==
    /\ Connected(c)
    /\ accepts[a].pc = "idle"
    /\ \A b \in Accepts : b < a => accepts[b].pc # "idle"
    /\ accepts' = [accepts EXCEPT ![a] = [IdleAccept EXCEPT !.pc = "paying", !.sock = c, !.req = r]]
    /\ UNCHANGED <<connVars, redisVars, emitted, now, leaveSent, walletVars, uncaught, callVars, requests, chats, timers, msgs,
                   saved, fanout, lastMessage, extensions>>

\* the handler's catch: socket.emit('error', ...)
AcceptFails(a) ==
    /\ accepts' = [accepts EXCEPT ![a].pc = "done"]
    /\ Emit({Ev("error", "accept", a, ToSelf(accepts[a].sock), FreeChat, accepts[a].req)})
    /\ UNCHANGED <<requests, chats, timers>>

\* a bug this handler could have: the payment's failure is not awaited
AcceptPaymentDoneUnchecked(a, ok) ==
    /\ accepts[a].pc = "paying"
    /\ accepts' = [accepts EXCEPT ![a].pc = "creating",
                                  ![a].paid = ok /\ requests[accepts[a].req].status # "none"]
    /\ UNCHANGED <<connVars, redisVars, emitted, now, leaveSent, walletVars, uncaught, callVars, requests, chats, timers, msgs,
                   saved, fanout, lastMessage, extensions>>

\* PaymentService.acceptPayment(requestId) returned or threw; it throws for
\* a request that has no payment session.  On return the handler goes on to
\* `await ChatService.createPrivateChat(requestId)`.
AcceptPaymentDone(a, ok) ==
    /\ accepts[a].pc = "paying"
    /\ IF ok /\ requests[accepts[a].req].status # "none"
       THEN /\ requests' = [requests EXCEPT ![accepts[a].req].status = "accepted"]
            /\ accepts' = [accepts EXCEPT ![a].pc = "creating", ![a].paid = TRUE]
            /\ UNCHANGED <<chats, timers, emitted>>
       ELSE AcceptFails(a)
    /\ UNCHANGED <<connVars, redisVars, now, leaveSent, walletVars, uncaught, callVars, msgs, saved, fanout, lastMessage, extensions>>

\* chatTimers is declared nowhere in the module: chatTimers.set(...) throws
\* a ReferenceError
ChatTimersDeclared == FALSE

\* startChatTimer(chatId, duration): setTimeout(callback, duration minutes),
\* then chatTimers.set(chatId, timer).  The timer is scheduled first; there
\* is no check for a timer the chat already has.
startChatTimer(a, k, duration) ==
    timers' = [timers EXCEPT ![a] = [pc |-> "pending", chat |-> k, due |-> now + duration, endedAt |-> 0]]

\* ChatService.createPrivateChat(requestId) returned or threw.  On return:
\* chat-started to the chat's room, startChatTimer, and the error event of
\* the catch when startChatTimer throws.
AcceptChatCreated(a, ok) ==
    /\ accepts[a].pc = "creating"
    /\ IF ok
       THEN LET k == accepts[a].req
                chat == createPrivateChat(k)
            IN  /\ chats' = [chats EXCEPT ![k] = chat]
                /\ startChatTimer(a, k, chat.totalDuration)
                /\ accepts' = [accepts EXCEPT ![a].pc = "done", ![a].created = TRUE]
                /\ Emit({Ev("chat-started", "accept", a, InRoom(ChatRoom(k)), k, chat.totalDuration)}
                        \cup IF ChatTimersDeclared THEN {}
                             ELSE {Ev("error", "accept", a, ToSelf(accepts[a].sock), FreeChat, k)})
                /\ UNCHANGED requests
       ELSE AcceptFails(a)
    /\ UNCHANGED <<connVars, redisVars, now, leaveSent, walletVars, uncaught, callVars, msgs, saved, fanout, lastMessage, extensions>>

\* ------------------------------------------------------- the expiry timer
\* the setTimeout callback starts: `await ChatService.endChat(chatId)`
TimerFire(a) ==
    /\ timers[a].pc = "pending"
    /\ now >= timers[a].due
    /\ timers' = [timers EXCEPT ![a].pc = "ending"]
    /\ UNCHANGED <<connVars, redisVars, emitted, now, leaveSent, walletVars, uncaught, callVars, requests, chats, accepts, msgs,
                   saved, fanout, lastMessage, extensions>>

\* endChat returned: chat-time-ended to the chat's room (endedAt records
\* when); the getChat that follows feeds an empty branch.  endChat threw:
\* the catch logs.
TimerEndChatDone(a, ok) ==
    /\ timers[a].pc = "ending"
    /\ IF ok
       THEN /\ chats' = endChat(timers[a].chat)
            /\ timers' = [timers EXCEPT ![a].pc = "done", ![a].endedAt = now]
            /\ Emit({Ev("chat-time-ended", "timer", a, InRoom(ChatRoom(timers[a].chat)),
                        timers[a].chat, 0)})
       ELSE /\ timers' = [timers EXCEPT ![a].pc = "failed"]
            /\ UNCHANGED <<chats, emitted>>
    /\ UNCHANGED <<connVars, redisVars, now, leaveSent, walletVars, uncaught, callVars, requests, accepts, msgs, saved, fanout,
                   lastMessage, extensions>>

\* a minute passes; a timer that is due fires before the next minute
Tick ==
    /\ now < MaxTime
    /\ \A a \in Accepts : timers[a].pc = "pending" => timers[a].due > now
    /\ now' = now + 1
    /\ UNCHANGED <<connVars, redisVars, emitted, chatVars, uncaught, callVars, leaveSent,
                   walletVars>>

\* ------------------------------------------------------------ send-message
IdleMsg == [pc |-> "idle", sock |-> 0, chat |-> 0, outcome |-> "none",
            zeroAtSend |-> FALSE, memberAtSend |-> FALSE]

\* the sender's identity takes part in the chat, or its socket joined the room
IsMember(c, k) == userId[c] \in chats[k].participants \/ ChatRoom(k) \in rooms[c]

\* socket.on('send-message') up to `await ChatService.getChat(chatId)`.
\* zeroAtSend and memberAtSend record what held when the event arrived.
SendMessage(m, c, k) ==
    /\ Connected(c)
    /\ msgs[m].pc = "idle"
    /\ \A n \in Msgs : n < m => msgs[n].pc # "idle"
    /\ msgs' = [msgs EXCEPT ![m] =
          [pc |-> "getChat", sock |-> c, chat |-> k, outcome |-> "none",
           zeroAtSend |-> chats[k].type = "private_paid" /\ RemainingTime(k) = 0,
           memberAtSend |-> IsMember(c, k)]]
    /\ UNCHANGED <<connVars, redisVars, emitted, now, leaveSent, walletVars, uncaught, callVars, requests, chats, accepts, timers,
                   saved, fanout, lastMessage, extensions>>

\* the handler's catch: socket.emit('error', ...)
SendFails(m) ==
    /\ msgs' = [msgs EXCEPT ![m].pc = "done", ![m].outcome = "error"]
    /\ Emit({Ev("error", "msg", m, ToSelf(msgs[m].sock), msgs[m].chat, m)})

\* getChat returned or threw.  A chat that is not in storage comes back
\* null and chat.type throws.  A private_paid chat goes on to
\* `await checkChatTimeRemaining`, any other to `await saveMessage`.
SendGotChat(m, ok) ==
    /\ msgs[m].pc = "getChat"
    /\ IF ok /\ chats[msgs[m].chat].exists
       THEN /\ msgs' = [msgs EXCEPT ![m].pc =
                  IF chats[msgs[m].chat].type = "private_paid" THEN "checkTime" ELSE "saving"]
            /\ UNCHANGED emitted
       ELSE SendFails(m)
    /\ UNCHANGED <<connVars, redisVars, now, leaveSent, walletVars, uncaught, callVars, requests, chats, accepts, timers, saved, fanout,
                   lastMessage, extensions>>

\* a bug this handler could have: the result of the time check is ignored
SendTimeCheckedIgnored(m, ok) ==
    /\ msgs[m].pc = "checkTime"
    /\ IF ok
       THEN /\ msgs' = [msgs EXCEPT ![m].pc = "saving"]
            /\ UNCHANGED emitted
       ELSE SendFails(m)
    /\ UNCHANGED <<connVars, redisVars, now, leaveSent, walletVars, uncaught, callVars, requests, chats, accepts, timers, saved, fanout,
                   lastMessage, extensions>>

\* checkChatTimeRemaining returned or threw.  No time left: chat-error
\* 'Chat time expired' to the sender, and return.
SendTimeChecked(m, ok) ==
    /\ msgs[m].pc = "checkTime"
    /\ IF ok
       THEN IF checkChatTimeRemaining(msgs[m].chat)
            THEN /\ msgs' = [msgs EXCEPT ![m].pc = "saving"]
                 /\ UNCHANGED emitted
            ELSE /\ msgs' = [msgs EXCEPT ![m].pc = "done", ![m].outcome = "time-expired"]
                 /\ Emit({Ev("chat-error", "msg", m, ToSelf(msgs[m].sock), msgs[m].chat, m)})
       ELSE SendFails(m)
    /\ UNCHANGED <<connVars, redisVars, now, leaveSent, walletVars, uncaught, callVars, requests, chats, accepts, timers, saved, fanout,
                   lastMessage, extensions>>

\* a bug this handler could have: another await (here, updateLastMessage
\* moved up) between saveMessage and the emit of new-message
SendSavedEmitsAfterAwait(m, ok) ==
    /\ msgs[m].pc \in {"saving", "committed"}
    /\ IF msgs[m].pc = "committed"
       THEN /\ msgs' = [msgs EXCEPT ![m].pc = "updating"]
            /\ Emit({Ev("new-message", "msg", m, InRoom(ChatRoom(msgs[m].chat)), msgs[m].chat, m)})
            /\ fanout' = Append(fanout, m)
            /\ UNCHANGED saved
       ELSE IF ok
       THEN /\ saved' = Append(saved, m)
            /\ msgs' = [msgs EXCEPT ![m].pc = "committed"]
            /\ UNCHANGED <<emitted, fanout>>
       ELSE /\ SendFails(m)
            /\ UNCHANGED <<saved, fanout>>
    /\ UNCHANGED <<connVars, redisVars, now, leaveSent, walletVars, uncaught, callVars, requests, chats, accepts, timers,
                   lastMessage, extensions>>

\* saveMessage returned or threw; `saved` is the order in which the calls
\* of saveMessage completed.  On return: new-message to the chat's room,
\* in the same turn of the event loop, then
\* `await ChatService.updateLastMessage(chatId, message)`.
SendSaved(m, ok) ==
    /\ msgs[m].pc = "saving"
    /\ IF ok
       THEN /\ saved' = Append(saved, m)
            /\ msgs' = [msgs EXCEPT ![m].pc = "updating"]
            /\ Emit({Ev("new-message", "msg", m, InRoom(ChatRoom(msgs[m].chat)), msgs[m].chat, m)})
            /\ fanout' = Append(fanout, m)
       ELSE /\ SendFails(m)
            /\ UNCHANGED <<saved, fanout>>
    /\ UNCHANGED <<connVars, redisVars, now, leaveSent, walletVars, uncaught, callVars, requests, chats, accepts, timers,
                   lastMessage, extensions>>

\* the user rooms of the chat's participants other than the sender
NotifiedParticipants(m) ==
    UNION {InRoom(UserRoom(p)) : p \in chats[msgs[m].chat].participants \ {userId[msgs[m].sock]}}

\* updateLastMessage returned or threw.  On return: message-notification to
\* the user room of every participant other than the sender.
SendLastMessageUpdated(m, ok) ==
    /\ msgs[m].pc = "updating"
    /\ IF ok
       THEN /\ lastMessage' = [lastMessage EXCEPT ![msgs[m].chat] = m]
            /\ msgs' = [msgs EXCEPT ![m].pc = "done", ![m].outcome = "sent"]
            /\ Emit({Ev("message-notification", "msg", m, NotifiedParticipants(m), msgs[m].chat, m)})
       ELSE /\ SendFails(m)
            /\ UNCHANGED lastMessage
    /\ UNCHANGED <<connVars, redisVars, now, leaveSent, walletVars, uncaught, callVars, requests, chats, accepts, timers, saved, fanout,
                   extensions>>

\* ------------------------------------------------------------- extend-chat
IdleExtension == [pc |-> "idle", sock |-> 0, chat |-> 0, minutes |-> 0,
                  payment |-> "none", expiredAtRequest |-> FALSE,
                  authorizedAt |-> 0, inTime |-> FALSE]

\* the expiry timer of chat k has fired and its callback has ended the chat
SessionExpired(k) ==
    /\ chats[k].ended
    /\ \E a \in Accepts : timers[a].chat = k /\ timers[a].pc = "done"

\* socket.on('extend-chat'): getChat, UserService.getUser of the chat's
\* earner, PaymentService.createExtensionPayment, extension-payment-request
\* to the requester.  Nothing the handler reads between its awaits is
\* written by another handler, so it is one action; `ok` is whether every
\* awaited call returned.  A chat that is not in storage, or has no
\* participant in the role of earner, throws a TypeError, caught like any
\* throw.  The handler never reads the chat's remaining time or state.
ExtendChat(e, c, k, minutes, ok) ==
    /\ Connected(c)
    /\ extensions[e].pc = "idle"
    /\ \A f \in Extends : f < e => extensions[f].pc # "idle"
    /\ LET passes == ok /\ chats[k].exists /\ chats[k].earner # NoUser
       IN  /\ extensions' = [extensions EXCEPT ![e] =
                 [IdleExtension EXCEPT !.pc = "done", !.sock = c, !.chat = k,
                     !.minutes = minutes,
                     !.payment = IF passes THEN "pending" ELSE "none",
                     !.expiredAtRequest = chats[k].exists /\ SessionExpired(k)]]
           /\ Emit({Ev(IF passes THEN "extension-payment-request" ELSE "error",
                       "extend", e, {c}, k, minutes)})
    /\ UNCHANGED <<connVars, redisVars, now, leaveSent, walletVars, uncaught, callVars, requests, chats, accepts, timers, msgs,
                   saved, fanout, lastMessage>>

\* The payment collaborator authorizes the extension payment (spec 3, an
\* authorization fact of kind "extension").  inTime: the chat had time left
\* when the authorization arrived.  No handler of the module listens for
\* it, and no timer can be rescheduled: its handle is kept nowhere.
ExtensionAuthorized(e) ==
    /\ extensions[e].payment = "pending"
    /\ extensions' = [extensions EXCEPT ![e].payment = "authorized",
                                        ![e].authorizedAt = now,
                                        ![e].inTime = RemainingTime(extensions[e].chat) > 0]
    /\ UNCHANGED <<connVars, redisVars, emitted, now, leaveSent, walletVars, uncaught, callVars, requests, chats, accepts, timers,
                   msgs, saved, fanout, lastMessage>>

\* ------------------------------------------------------------- withdrawals
\* const minWithdrawal = method === 'bank' ? 500 : 10
MinBankWithdrawal == 500
MinOtherWithdrawal == 10
PayoutMethods == {"bank", "upi"}
\* amounts asked for: below every minimum, the minimum of the other
\* methods, the minimum of a bank withdrawal
Amounts == {5, MinOtherWithdrawal, MinBankWithdrawal}

\* user.wallet of the one user whose withdrawals are followed
InitialWallet == [balance |-> MinBankWithdrawal + MinOtherWithdrawal, pendingWithdrawal |-> 0,
                  totalWithdrawn |-> 0]

\* doc: the wallet of the user document the invocation loaded; record: the
\* status of the Withdrawal document it created, as storage has it; payout:
\* the position of the setTimeout callback of initiatePayout; payoutDoc:
\* the wallet of the user document the callback loaded
IdleWithdrawal == [pc |-> "idle", amount |-> 0, method |-> "none",
                   doc |-> [balance |-> 0, pendingWithdrawal |-> 0, totalWithdrawn |-> 0],
                   record |-> "none", payout |-> "none",
                   payoutDoc |-> [balance |-> 0, pendingWithdrawal |-> 0, totalWithdrawn |-> 0]]

\* the catch of processWithdrawal: throw new Error('Withdrawal processing
\* failed: ...'), the returned promise rejects
WithdrawalFails(w) ==
    withdrawals' = [withdrawals EXCEPT ![w].pc = "rejected"]

\* processWithdrawal(userId, amount, method, details) up to
\* `await User.findById(userId)`
processWithdrawal(w, amount, method) ==
    /\ withdrawals[w].pc = "idle"
    /\ \A v \in Withdrawals : v < w => withdrawals[v].pc # "idle"
    /\ withdrawals' = [withdrawals EXCEPT ![w] =
          [@ EXCEPT !.amount = amount, !.method = method,
                    !.pc = IF amount < (IF method = "bank" THEN MinBankWithdrawal
                                        ELSE MinOtherWithdrawal)
                           THEN "rejected" ELSE "finding"]]
    /\ UNCHANGED <<connVars, redisVars, emitted, now, chatVars, uncaught, callVars, leaveSent,
                   wallet>>

\* User.findById returned the user document or threw; the balance check is
\* made on the document, then `await Withdrawal.create(...)`
WithdrawalUserFound(w, ok) ==
    /\ withdrawals[w].pc = "finding"
    /\ IF ok /\ wallet.balance >= withdrawals[w].amount
       THEN withdrawals' = [withdrawals EXCEPT ![w].pc = "creating", ![w].doc = wallet]
       ELSE WithdrawalFails(w)
    /\ UNCHANGED <<connVars, redisVars, emitted, now, chatVars, uncaught, callVars, leaveSent,
                   wallet>>

\* Withdrawal.create returned or threw.  On return the amount is moved from
\* balance to pendingWithdrawal on the loaded document, then
\* `await user.save()`
WithdrawalCreated(w, ok) ==
    /\ withdrawals[w].pc = "creating"
    /\ IF ok
       THEN withdrawals' = [withdrawals EXCEPT
               ![w].pc = "saving",
               ![w].record = "pending",
               ![w].doc = [@ EXCEPT
                              !.balance = @ - withdrawals[w].amount,
                              !.pendingWithdrawal = @ + withdrawals[w].amount]]
       ELSE WithdrawalFails(w)
    /\ UNCHANGED <<connVars, redisVars, emitted, now, chatVars, uncaught, callVars, leaveSent,
                   wallet>>

\* user.save() returned or threw.  save writes the fields the invocation
\* changed on its document (wallet.balance, wallet.pendingWithdrawal), with
\* the values they have there.  On return: initiatePayout schedules its
\* setTimeout and returns, and the withdrawal is accepted ({success: true}).
WithdrawalUserSaved(w, ok) ==
    /\ withdrawals[w].pc = "saving"
    /\ IF ok
       THEN /\ wallet' = [wallet EXCEPT
                  !.balance = withdrawals[w].doc.balance,
                  !.pendingWithdrawal = withdrawals[w].doc.pendingWithdrawal]
            /\ withdrawals' = [withdrawals EXCEPT ![w].pc = "accepted",
                                                  ![w].payout = "scheduled"]
       ELSE /\ WithdrawalFails(w)
            /\ UNCHANGED wallet
    /\ UNCHANGED <<connVars, redisVars, emitted, now, chatVars, uncaught, callVars, leaveSent>>

\* the rejection of the promise of initiatePayout's async callback, which
\* nothing handles
PayoutFails(w) ==
    /\ withdrawals' = [withdrawals EXCEPT ![w].payout = "failed"]
    /\ uncaught' = uncaught \cup {Unhandled("payout", w)}

\* the setTimeout callback of initiatePayout starts, 30 seconds after the
\* withdrawal was accepted: withdrawal.status = 'completed' on the
\* document, then `await withdrawal.save()`
PayoutFire(w) ==
    /\ withdrawals[w].payout = "scheduled"
    /\ withdrawals' = [withdrawals EXCEPT ![w].payout = "savingRecord"]
    /\ UNCHANGED <<connVars, redisVars, emitted, now, chatVars, uncaught, callVars, leaveSent,
                   wallet>>

\* withdrawal.save() returned or threw; then `await User.findById(...)`
PayoutRecordSaved(w, ok) ==
    /\ withdrawals[w].payout = "savingRecord"
    /\ IF ok
       THEN /\ withdrawals' = [withdrawals EXCEPT ![w].record = "completed",
                                                  ![w].payout = "finding"]
            /\ UNCHANGED uncaught
       ELSE PayoutFails(w)
    /\ UNCHANGED <<connVars, redisVars, emitted, now, chatVars, callVars, leaveSent, wallet>>

\* User.findById returned the user document or threw.  On return the
\* amount is moved from pendingWithdrawal to totalWithdrawn on the loaded
\* document, then `await user.save()`
PayoutUserFound(w, ok) ==
    /\ withdrawals[w].payout = "finding"
    /\ IF ok
       THEN /\ withdrawals' = [withdrawals EXCEPT
                  ![w].payout = "savingUser",
                  ![w].payoutDoc = [wallet EXCEPT
                      !.pendingWithdrawal = @ - withdrawals[w].amount,
                      !.totalWithdrawn = @ + withdrawals[w].amount]]
            /\ UNCHANGED uncaught
       ELSE PayoutFails(w)
    /\ UNCHANGED <<connVars, redisVars, emitted, now, chatVars, callVars, leaveSent, wallet>>

\* user.save() returned or threw.  save writes the fields the callback
\* changed (wallet.pendingWithdrawal, wallet.totalWithdrawn).  On return
\* this.sendNotification(userId, ...) names a userId that no scope
\* declares: a ReferenceError ends the callback after the wallet is saved.
PayoutUserSaved(w, ok) ==
    /\ withdrawals[w].payout = "savingUser"
    /\ IF ok
       THEN /\ wallet' = [wallet EXCEPT
                  !.pendingWithdrawal = withdrawals[w].payoutDoc.pendingWithdrawal,
                  !.totalWithdrawn = withdrawals[w].payoutDoc.totalWithdrawn]
            /\ withdrawals' = [withdrawals EXCEPT ![w].payout = "paid"]
            /\ uncaught' = uncaught \cup {Unhandled("payout", w)}
       ELSE /\ PayoutFails(w)
            /\ UNCHANGED wallet
    /\ UNCHANGED <<connVars, redisVars, emitted, now, chatVars, callVars, leaveSent>>

\* ---------------------------------------------------------- specifications
\* the state after construction: no connection, the free chat in storage
Init ==
    /\ cstate = [c \in Conns |-> "idle"]
    /\ token = [c \in Conns |-> "none"]
    /\ userId = [c \in Conns |-> NoUser]
    /\ rooms = [c \in Conns |-> {}]
    /\ staleClose = {}
    /\ redisSocketId = [u \in Users |-> 0]
    /\ redisStatus = [u \in Users |-> "absent"]
    /\ redisLastSeen = {}
    /\ emitted = {}
    /\ now = 0
    /\ requests = [r \in Requests |-> NoRequest]
    /\ chats = [k \in ChatIds |-> IF k = FreeChat THEN TheFreeChat ELSE NoChat]
    /\ accepts = [a \in Accepts |-> IdleAccept]
    /\ timers = [a \in Accepts |-> NoTimer]
    /\ msgs = [m \in Msgs |-> IdleMsg]
    /\ saved = <<>>
    /\ fanout = <<>>
    /\ lastMessage = [k \in ChatIds |-> 0]
    /\ extensions = [e \in Extends |-> IdleExtension]
    /\ uncaught = {}
    /\ calls = [i \in CallIds |-> NoCall]
    /\ nEvents = 0
    /\ leaveSent = {}
    /\ wallet = InitialWallet
    /\ withdrawals = [w \in Withdrawals |-> IdleWithdrawal]

\* connection c presents the token of user ConnUser(c)
ConnUser(c) == UserSeq[((c - 1) % Len(UserSeq)) + 1]

\* the events of connections 1..n connecting one after the other
RECURSIVE ConnectEvents(_)
ConnectEvents(n) ==
    IF n = 0 THEN {}
    ELSE ConnectEvents(n - 1) \cup
         {[ev |-> "connected", kind |-> "sock", id |-> n, to |-> {n},
           chat |-> FreeChat, arg |-> 0],
          [ev |-> "user-status-online", kind |-> "sock", id |-> n, to |-> 1..(n - 1),
           chat |-> FreeChat, arg |-> 0]}

\* the state once every connection has authenticated, one after the other,
\* connection c as user ConnUser(c)
InitConnected ==
    /\ cstate = [c \in Conns |-> "connected"]
    /\ token = [c \in Conns |-> ConnUser(c)]
    /\ userId = [c \in Conns |-> ConnUser(c)]
    /\ rooms = [c \in Conns |-> {SockRoom(c), UserRoom(ConnUser(c))}]
    /\ staleClose = {}
    /\ redisSocketId = [u \in Users |->
          IF \E c \in Conns : ConnUser(c) = u
          THEN CHOOSE c \in Conns : ConnUser(c) = u /\ \A d \in Conns : ConnUser(d) = u => d <= c
          ELSE 0]
    /\ redisStatus = [u \in Users |-> IF \E c \in Conns : ConnUser(c) = u THEN "online" ELSE "absent"]
    /\ redisLastSeen = {}
    /\ emitted = ConnectEvents(MaxConns)
    /\ now = 0
    /\ requests = [r \in Requests |-> NoRequest]
    /\ chats = [k \in ChatIds |-> IF k = FreeChat THEN TheFreeChat ELSE NoChat]
    /\ accepts = [a \in Accepts |-> IdleAccept]
    /\ timers = [a \in Accepts |-> NoTimer]
    /\ msgs = [m \in Msgs |-> IdleMsg]
    /\ saved = <<>>
    /\ fanout = <<>>
    /\ lastMessage = [k \in ChatIds |-> 0]
    /\ extensions = [e \in Extends |-> IdleExtension]
    /\ uncaught = {}
    /\ calls = [i \in CallIds |-> NoCall]
    /\ nEvents = 0
    /\ leaveSent = {}
    /\ wallet = InitialWallet
    /\ withdrawals = [w \in Withdrawals |-> IdleWithdrawal]

\* connections: the middleware, the connection handler, an event of a
\* connected socket, disconnect
NextConn ==
    \/ \E c \in Conns, tk \in Tokens : AuthMiddleware(c, tk)
    \/ \E c \in Conns, ok \in BOOLEAN : AuthSocketIdSet(c, ok)
    \/ \E c \in Conns, ok \in BOOLEAN : AuthStatusSet(c, ok)
    \/ \E c \in Conns, ok \in BOOLEAN : AuthExpireSet(c, ok)
    \/ \E c \in Conns : Typing(c, FreeChat, TRUE)
    \/ \E c \in Conns : Disconnect(c)
    \/ \E c \in Conns, ok \in BOOLEAN : DisconnectStatusSet(c, ok)
    \/ \E c \in Conns, ok \in BOOLEAN : DisconnectLastSeenSet(c, ok)

Spec == Init /\ [][NextConn]_vars

\* paid chats: request, accept, the expiry timer, extension
NextBilling ==
    \/ \E c \in Conns, r \in Requests, e \in Users, d \in Durations, active, ok \in BOOLEAN :
          RequestPrivateChat(c, r, e, d, active, ok)
    \/ \E a \in Accepts, c \in Conns, r \in Requests : AcceptChatRequest(a, c, r)
    \/ \E a \in Accepts, ok \in BOOLEAN : AcceptPaymentDone(a, ok)
    \/ \E a \in Accepts, ok \in BOOLEAN : AcceptChatCreated(a, ok)
    \/ \E a \in Accepts : TimerFire(a)
    \/ \E a \in Accepts, ok \in BOOLEAN : TimerEndChatDone(a, ok)
    \/ Tick
    \/ \E e \in Extends, c \in Conns, k \in ChatIds, minutes \in Durations, ok \in BOOLEAN :
          ExtendChat(e, c, k, minutes, ok)
    \/ \E e \in Extends : ExtensionAuthorized(e)

SpecBilling == InitConnected /\ [][NextBilling]_vars

\* the state once connection 1 (u1) has requested a chat of one minute with
\* the earner u2 and connection 2 has accepted it: chat 1 is active, its
\* expiry timer is pending
InitPaidChat ==
    /\ cstate = [c \in Conns |-> "connected"]
    /\ token = [c \in Conns |-> ConnUser(c)]
    /\ userId = [c \in Conns |-> ConnUser(c)]
    /\ rooms = [c \in Conns |->
          {SockRoom(c), UserRoom(ConnUser(c))}
          \cup (IF c = 1 THEN {ChatRoom(FreeChat), ChatRoom(1)} ELSE {})
          \cup (IF c = 2 THEN {ChatRoom(1)} ELSE {})]
    /\ staleClose = {}
    /\ redisSocketId = [u \in Users |->
          CHOOSE c \in Conns : ConnUser(c) = u /\ \A d \in Conns : ConnUser(d) = u => d <= c]
    /\ redisStatus = [u \in Users |-> "online"]
    /\ redisLastSeen = {}
    /\ emitted = ConnectEvents(MaxConns) \cup
          {[ev |-> "user-joined", kind |-> "sock", id |-> 1, to |-> {},
            chat |-> FreeChat, arg |-> 0],
           [ev |-> "user-joined", kind |-> "sock", id |-> 1, to |-> {},
            chat |-> 1, arg |-> 0],
           [ev |-> "user-joined", kind |-> "sock", id |-> 2, to |-> {1},
            chat |-> 1, arg |-> 0],
           [ev |-> "payment-request", kind |-> "sock", id |-> 1, to |-> {1},
            chat |-> FreeChat, arg |-> 1],
           [ev |-> "chat-request", kind |-> "sock", id |-> 1, to |-> {2},
            chat |-> FreeChat, arg |-> 1],
           [ev |-> "chat-started", kind |-> "accept", id |-> 1, to |-> {},
            chat |-> 1, arg |-> 1],
           [ev |-> "error", kind |-> "accept", id |-> 1, to |-> {2},
            chat |-> FreeChat, arg |-> 1]}
    /\ now = 0
    /\ requests = [r \in Requests |->
          IF r = 1 THEN [status |-> "accepted", user |-> "u1", earner |-> "u2", duration |-> 1]
          ELSE NoRequest]
    /\ chats = [k \in ChatIds |->
          IF k = FreeChat THEN TheFreeChat
          ELSE IF k = 1
               THEN [exists |-> TRUE, type |-> "private_paid", participants |-> {"u1", "u2"},
                     earner |-> "u2", ended |-> FALSE, expiresAt |-> 1, totalDuration |-> 1]
               ELSE NoChat]
    /\ accepts = [a \in Accepts |->
          IF a = 1 THEN [pc |-> "done", sock |-> 2, req |-> 1, paid |-> TRUE, created |-> TRUE]
          ELSE IdleAccept]
    /\ timers = [a \in Accepts |->
          IF a = 1 THEN [pc |-> "pending", chat |-> 1, due |-> 1, endedAt |-> 0] ELSE NoTimer]
    /\ msgs = [m \in Msgs |-> IdleMsg]
    /\ saved = <<>>
    /\ fanout = <<>>
    /\ lastMessage = [k \in ChatIds |-> 0]
    /\ extensions = [e \in Extends |-> IdleExtension]
    /\ uncaught = {}
    /\ calls = [i \in CallIds |-> NoCall]
    /\ nEvents = 0
    /\ leaveSent = {}
    /\ wallet = InitialWallet
    /\ withdrawals = [w \in Withdrawals |-> IdleWithdrawal]

\* messages in the free chat and in the paid chat, while its time runs out
NextMsg ==
    \/ \E m \in Msgs, c \in Conns, k \in ChatIds : SendMessage(m, c, k)
    \/ \E m \in Msgs, ok \in BOOLEAN : SendGotChat(m, ok)
    \/ \E m \in Msgs, ok \in BOOLEAN : SendTimeChecked(m, ok)
    \/ \E m \in Msgs, ok \in BOOLEAN : SendSaved(m, ok)
    \/ \E m \in Msgs, ok \in BOOLEAN : SendLastMessageUpdated(m, ok)
    \/ \E a \in Accepts : TimerFire(a)
    \/ \E a \in Accepts, ok \in BOOLEAN : TimerEndChatDone(a, ok)
    \/ Tick

SpecMsg == InitPaidChat /\ [][NextMsg]_vars

\* calls of the connected sockets, and their disconnects
NextCall ==
    \/ \E c \in Conns, u \in Users, role \in Roles, enabled, ok \in BOOLEAN :
          CallUser(c, u, role, enabled, ok)
    \/ \E c \in Conns, i \in CallIds : AcceptCall(c, i)
    \/ \E c \in Conns, i \in CallIds : RejectCall(c, i)
    \/ \E c \in Conns, i \in CallIds : JoinCall(c, i)
    \/ \E c \in Conns, i \in CallIds : CallSignal(c, i)
    \/ \E c \in Conns, i \in CallIds : EndCall(c, i)
    \/ \E c \in Conns : Disconnect(c)
    \/ \E c \in Conns, ok \in BOOLEAN : DisconnectStatusSet(c, ok)
    \/ \E c \in Conns, ok \in BOOLEAN : DisconnectLastSeenSet(c, ok)

SpecCall == InitConnected /\ [][NextCall]_vars

\* the sockets of a paid chat join rooms and disconnect while the chat's
\* expiry timer runs
NextTeardown ==
    \/ \E c \in Conns, k \in ChatIds, ok \in BOOLEAN : JoinChat(c, k, ok)
    \/ \E c \in Conns, i \in CallIds : JoinCall(c, i)
    \/ \E c \in Conns : Disconnect(c)
    \/ \E c \in Conns, ok \in BOOLEAN : DisconnectStatusSet(c, ok)
    \/ \E c \in Conns, ok \in BOOLEAN : DisconnectLastSeenSet(c, ok)
    \/ \E a \in Accepts : TimerFire(a)
    \/ \E a \in Accepts, ok \in BOOLEAN : TimerEndChatDone(a, ok)
    \/ Tick

SpecTeardown == InitPaidChat /\ [][NextTeardown]_vars

\* a chat's sockets join, leave and type
NextRoom ==
    \/ \E c \in Conns, k \in ChatIds, ok \in BOOLEAN : JoinChat(c, k, ok)
    \/ \E c \in Conns, k \in ChatIds : LeaveChat(c, k)
    \/ \E c \in Conns, k \in ChatIds : Typing(c, k, TRUE)

SpecRoom == InitPaidChat /\ [][NextRoom]_vars

\* read receipts and presence of the sockets of a paid chat
NextPresence ==
    \/ \E c \in Conns, k \in ChatIds, ok \in BOOLEAN : ReadReceipt(c, k, ok)
    \/ \E c \in Conns, st \in PresenceStatuses, custom, ok1, ok2 \in BOOLEAN :
          UpdatePresence(c, st, custom, ok1, ok2)

SpecPresence == InitPaidChat /\ [][NextPresence]_vars

\* concurrent withdrawals of one user and their payouts
NextWallet ==
    \/ \E w \in Withdrawals : PayoutFire(w)
    \/ \E w \in Withdrawals, ok \in BOOLEAN : PayoutRecordSaved(w, ok)
    \/ \E w \in Withdrawals, ok \in BOOLEAN : PayoutUserFound(w, ok)
    \/ \E w \in Withdrawals, ok \in BOOLEAN : PayoutUserSaved(w, ok)
    \/ \E w \in Withdrawals, amount \in Amounts, method \in PayoutMethods :
          processWithdrawal(w, amount, method)
    \/ \E w \in Withdrawals, ok \in BOOLEAN : WithdrawalUserFound(w, ok)
    \/ \E w \in Withdrawals, ok \in BOOLEAN : WithdrawalCreated(w, ok)
    \/ \E w \in Withdrawals, ok \in BOOLEAN : WithdrawalUserSaved(w, ok)

SpecWallet == Init /\ [][NextWallet]_vars

\* ------------------------------------------------------------------ claims
EventsOf(kind, id) == {ev \in emitted : ev.kind = kind /\ ev.id = id}
IsSaved(m) == \E i \in 1..Len(saved) : saved[i] = m

\* C1: a send-message for a private_paid chat whose remaining time is zero
\* when the event arrives is never persisted and never emitted as
\* new-message; once its handler is over the sender has got the chat-error
\* event 'Chat time expired' (or the error event, when reading the chat or
\* its remaining time threw).
C1_ExpiredPaidChatRejectsMessage ==
    \A m \in Msgs :
        msgs[m].zeroAtSend =>
            /\ ~IsSaved(m)
            /\ ~\E ev \in emitted : ev.ev = "new-message" /\ ev.arg = m
            /\ msgs[m].pc \in {"getChat", "checkTime", "done"}
            /\ msgs[m].pc = "done" =>
                  \/ /\ msgs[m].outcome = "time-expired"
                     /\ Ev("chat-error", "msg", m, {msgs[m].sock}, msgs[m].chat, m) \in emitted
                  \/ /\ msgs[m].outcome = "error"
                     /\ Ev("error", "msg", m, {msgs[m].sock}, msgs[m].chat, m) \in emitted

C1_Witness ==
    \E m \in Msgs :
        /\ msgs[m].zeroAtSend
        /\ msgs[m].pc = "done"
        /\ msgs[m].outcome = "time-expired"
        /\ \E n \in Msgs : IsSaved(n) /\ msgs[n].chat = msgs[m].chat

\* C2: once a connection of identity X has closed while another connection
\* was X's canonical one, its disconnect handler broadcasts no offline
\* user-status, and X's stored status is online while the canonical
\* connection is connected.
C2_StaleDisconnectKeepsOnline ==
    \A c \in staleClose :
        /\ ~\E ev \in EventsOf("sock", c) : ev.ev = "user-status-offline"
        /\ (redisSocketId[userId[c]] \in Conns /\ Connected(redisSocketId[userId[c]]))
              => redisStatus[userId[c]] = "online"

\* C3: chat-time-ended is emitted at most once for a paid chat.
C3_TimeEndedAtMostOnce ==
    \A k \in Requests :
        Cardinality({ev \in emitted : ev.ev = "chat-time-ended" /\ ev.chat = k}) <= 1

\* C4: once the expiry callback of a paid chat is over, the chat is ended
\* and chat-time-ended has been emitted for it.
C4_ExpiryCallbackEndsChat ==
    \A a \in Accepts :
        timers[a].pc \in {"done", "failed"} =>
            /\ chats[timers[a].chat].ended
            /\ \E ev \in emitted : ev.ev = "chat-time-ended" /\ ev.chat = timers[a].chat

\* C5: a chat has at most one pending expiry timer.
C5_OneTimerPerChat ==
    \A k \in Requests :
        Cardinality({a \in Accepts : timers[a].pc = "pending" /\ timers[a].chat = k}) <= 1

\* C6: when an extension of M minutes was authorized for a paid chat before
\* its scheduled deadline, while the chat had time left, chat-time-ended is
\* not emitted before that deadline plus M.
C6_ExtensionMovesDeadline ==
    \A a \in Accepts, e \in Extends :
        (/\ timers[a].pc = "done"
         /\ extensions[e].payment = "authorized"
         /\ extensions[e].chat = timers[a].chat
         /\ extensions[e].inTime
         /\ extensions[e].authorizedAt < timers[a].due)
            => timers[a].endedAt >= timers[a].due + extensions[e].minutes

\* C7: an extend-chat for a chat whose expiry timer has fired and ended the
\* chat creates no extension payment, emits no extension-payment-request
\* and sends the requester an error.
C7_ExtendAfterExpiryRejected ==
    \A e \in Extends :
        (extensions[e].pc = "done" /\ extensions[e].expiredAtRequest) =>
            /\ extensions[e].payment = "none"
            /\ ~\E ev \in EventsOf("extend", e) : ev.ev = "extension-payment-request"
            /\ \E ev \in EventsOf("extend", e) : ev.ev = "error"

\* C8: an accept-chat-request schedules an expiry timer and emits
\* chat-started only once acceptPayment and createPrivateChat have returned
\* for it; when either throws, the handler ends with no timer scheduled, no
\* chat-started emitted and an error event to the accepting connection.
C8_TimerOnlyAfterPayment ==
    \A a \in Accepts :
        /\ (timers[a].pc # "unset" \/ \E ev \in EventsOf("accept", a) : ev.ev = "chat-started")
              => /\ accepts[a].paid
                 /\ accepts[a].created
        /\ (accepts[a].pc = "done" /\ ~(accepts[a].paid /\ accepts[a].created))
              => /\ timers[a].pc = "unset"
                 /\ ~\E ev \in EventsOf("accept", a) : ev.ev = "chat-started"
                 /\ Ev("error", "accept", a, {accepts[a].sock}, FreeChat, accepts[a].req) \in emitted

C8_Witness ==
    \E a, b \in Accepts :
        /\ accepts[a].pc = "done" /\ ~accepts[a].paid
        /\ Ev("error", "accept", a, {accepts[a].sock}, FreeChat, accepts[a].req) \in emitted
        /\ accepts[b].pc = "done" /\ accepts[b].paid /\ accepts[b].created
        /\ timers[b].pc = "pending"
        /\ \E ev \in EventsOf("accept", b) : ev.ev = "chat-started"

\* C9: a connection whose handshake has no token, or a token that does not
\* verify, is rejected: it is never connected, socket.userId is never set,
\* it is in no room, it is nobody's stored socketId, it emits no event and
\* receives none.
C9_BadTokenRejected ==
    \A c \in Conns :
        (cstate[c] # "idle" /\ token[c] \in {"none", "bad"}) =>
            /\ cstate[c] = "rejected"
            /\ userId[c] = NoUser
            /\ rooms[c] = {}
            /\ \A u \in Users : redisSocketId[u] # c
            /\ EventsOf("sock", c) = {}
            /\ \A ev \in emitted : c \notin ev.to

C9_Witness ==
    \E c, d \in Conns :
        /\ token[c] = "none" /\ cstate[c] = "rejected"
        /\ token[d] = "bad" /\ cstate[d] = "rejected"

\* C10: a send-message from a connection whose identity does not take part
\* in the chat and which has not joined its room is neither persisted nor
\* emitted as new-message, and ends with an error event to the sender.
C10_NonMemberMessageRejected ==
    \A m \in Msgs :
        (msgs[m].pc # "idle" /\ ~msgs[m].memberAtSend) =>
            /\ ~IsSaved(m)
            /\ ~\E ev \in emitted : ev.ev = "new-message" /\ ev.arg = m
            /\ msgs[m].pc = "done" => \E ev \in EventsOf("msg", m) : ev.ev = "error"

C13_DisconnectEndsCalls ==
    \A i \in CallIds : \A c \in calls[i].droppedBy :
        cstate[c] = "closed" =>
            \A d \in calls[i].parties \ {c} :
                Connected(d) =>
                    \E ev \in emitted : ev.ev = "call-ended" /\ ev.arg = i /\ d \in ev.to

\* a step of the disconnect of connection c
DisconnectStep(c) ==
    /\ cstate'[c] # cstate[c]
    /\ cstate'[c] \in {"discStatus", "discLastSeen", "closed"}

\* C14: no step of a disconnect changes a payment session, a chat, an
\* expiry timer or an extension; a pending expiry timer is never cancelled
\* or rescheduled, and it fires at the deadline it was scheduled for.
C14_DisconnectKeepsBilling ==
    [][/\ (\E c \in Conns : DisconnectStep(c)) =>
             /\ requests' = requests
             /\ chats' = chats
             /\ timers' = timers
             /\ extensions' = extensions
       /\ \A a \in Accepts :
             timers[a].pc = "pending" =>
                /\ timers'[a].pc \in {"pending", "ending"}
                /\ timers'[a].chat = timers[a].chat
                /\ timers'[a].due = timers[a].due
                /\ timers'[a].pc = "ending" => now = timers[a].due]_vars

\* both participants of the paid chat disconnected, and its expiry timer
\* then ended the chat: chat-time-ended went to an empty room
C14_Witness ==
    /\ \A c \in Conns : cstate[c] = "closed"
    /\ \E a \in Accepts :
          /\ timers[a].pc = "done"
          /\ timers[a].endedAt = timers[a].due
          /\ chats[timers[a].chat].ended
          /\ Ev("chat-time-ended", "timer", a, {}, timers[a].chat, 0) \in emitted

\* C15: no failure of an event handler escapes uncaught.
C15_HandlerFailuresCaught ==
    uncaught = {}

\* C16: when an expiry callback has failed (endChat threw) and the chat has
\* no other expiry timer outstanding, the chat is ended and
\* chat-time-ended has been emitted for it.
C16_ExpiryNotLost ==
    \A a \in Accepts :
        (/\ timers[a].pc = "failed"
         /\ ~\E b \in Accepts : /\ timers[b].chat = timers[a].chat
                                 /\ timers[b].pc \in {"pending", "ending"})
            => /\ chats[timers[a].chat].ended
               /\ \E ev \in emitted :
                     ev.ev = "chat-time-ended" /\ ev.chat = timers[a].chat

\* C17: no call is created (no call id, no incoming-call, no
\* call-initiated) by a call-user whose callee is offline.
C17_OfflineCalleeRejected ==
    \A i \in CallIds :
        (calls[i].state # "none" /\ ~calls[i].calleeOnline) =>
            /\ ~\E ev \in emitted : ev.ev = "call-initiated" /\ ev.arg = i
            /\ ~\E ev \in emitted : ev.ev = "incoming-call" /\ ev.arg = i

\* C18: no call is created by a call-user whose callee has the requested
\* call kind disabled, whatever the callee's role.
C18_DisabledKindRejected ==
    \A i \in CallIds :
        calls[i].state # "none" => calls[i].kindEnabled

\* C19: call-accepted and call-rejected reach nobody for a call that is
\* not ringing when accept-call or reject-call is handled.
C19_AnswerOnlyWhileRinging ==
    \A i \in CallIds : ~calls[i].strayAnswer

\* C20: call-signal reaches somebody only when its sender has joined the
\* call's room and the call is accepted, and it never reaches its sender.
C20_SignalOnlyFromJoinedAccepted ==
    /\ \A i \in CallIds : ~calls[i].straySignal
    /\ \A ev \in emitted : ev.ev = "call-signal" => ev.id \notin ev.to

\* C21: no call-signal, call-accepted or call-ended event of a call reaches
\* a connection once end-call or reject-call has been handled for it.
C21_DiscardedCallIsSilent ==
    \A i \in CallIds : ~calls[i].lateEvent

\* connection c went through io.on('connection') when d was connected
AuthenticatedAfter(c, d) ==
    \E ev \in EventsOf("sock", c) : ev.ev = "user-status-online" /\ d \in ev.to

\* C22: when every connection that presented identity u's token is
\* connected, the presence record of u names the one that connected last
\* as its socketId, and its status is online.
C22_LastConnectIsCanonical ==
    \A u \in Users :
        LET S == {c \in Conns : userId[c] = u}
        IN  (S # {} /\ \A c \in S : Connected(c)) =>
                /\ redisStatus[u] = "online"
                /\ redisSocketId[u] \in S
                /\ \A d \in S \ {redisSocketId[u]} : AuthenticatedAfter(redisSocketId[u], d)

\* C23: a connection that emitted leave-chat for a chat (and has not joined
\* it again) is not in the chat's room, and user-left was emitted for it.
C23_LeaveChatLeavesRoom ==
    \A p \in leaveSent :
        /\ ChatRoom(p[2]) \notin rooms[p[1]]
        /\ \E ev \in emitted : ev.ev = "user-left" /\ ev.id = p[1] /\ ev.chat = p[2]

\* C24: an accept-chat-request whose payment was accepted and whose chat
\* was created has its timer scheduled and sends no error event to the
\* accepting connection.
C24_StartChatTimerReturns ==
    \A a \in Accepts :
        (accepts[a].pc = "done" /\ accepts[a].paid /\ accepts[a].created) =>
            /\ timers[a].pc # "unset"
            /\ ~\E ev \in EventsOf("accept", a) : ev.ev = "error"

\* the messages of chat k in storage, in commit order
SavedIn(k) == SelectSeq(saved, LAMBDA m : msgs[m].chat = k)

\* C25: once every send-message handler of a chat is over, each message it
\* saved having also had its updateLastMessage return, the chat's
\* last-message reference is the message committed last.
C25_LastMessageIsLastCommitted ==
    \A k \in ChatIds :
        (/\ SavedIn(k) # <<>>
         /\ \A m \in Msgs :
               (msgs[m].pc # "idle" /\ msgs[m].chat = k) =>
                   /\ msgs[m].pc = "done"
                   /\ IsSaved(m) => msgs[m].outcome = "sent")
            => lastMessage[k] = SavedIn(k)[Len(SavedIn(k))]

\* the expiry of chat k has taken effect: endChat done, chat-time-ended
\* emitted
ExpiryInEffect(k) ==
    /\ chats[k].ended
    /\ \E ev \in emitted : ev.ev = "chat-time-ended" /\ ev.chat = k

\* C26: no step persists a message, or emits it as new-message, for a paid
\* chat whose expiry has taken effect.
C26_NoMessageAfterExpiry ==
    [][\A m \in Msgs :
          (/\ chats[msgs[m].chat].type = "private_paid"
           /\ ExpiryInEffect(msgs[m].chat))
             => /\ IsSaved(m)' => IsSaved(m)
                /\ \A ev \in emitted' \ emitted :
                      ~(ev.ev = "new-message" /\ ev.arg = m)]_vars

\* C27: when an accept-chat-request has succeeded, its chat-started event
\* went to the connections of the request's requester and of its earner.
C27_ChatStartedReachesBoth ==
    \A a \in Accepts :
        (accepts[a].pc = "done" /\ accepts[a].paid /\ accepts[a].created) =>
            \E ev \in EventsOf("accept", a) :
                /\ ev.ev = "chat-started"
                /\ \A c \in Conns :
                      (/\ Connected(c)
                       /\ userId[c] \in {requests[accepts[a].req].user,
                                         requests[accepts[a].req].earner})
                         => c \in ev.to

\* C28: new-message, typing-indicator and message-read events of a chat
\* reach only connections whose identity takes part in the chat.
C28_ChatEventsOnlyToParticipants ==
    \A ev \in emitted :
        ev.ev \in {"new-message", "typing-indicator", "message-read"} =>
            \A c \in ev.to : userId[c] \in chats[ev.chat].participants

\* C29: a payment is accepted, a chat created and a timer started only by
\* an accept-chat-request of the earner the request was addressed to.
C29_OnlyAddressedEarnerAccepts ==
    \A a \in Accepts :
        (accepts[a].paid \/ accepts[a].created \/ timers[a].pc # "unset") =>
            userId[accepts[a].sock] = requests[accepts[a].req].earner

\* the sum of the amounts of the accepted withdrawals among S
RECURSIVE SumAccepted(_)
SumAccepted(S) ==
    IF S = {} THEN 0
    ELSE LET w == CHOOSE v \in S : TRUE
         IN  (IF withdrawals[w].pc = "accepted" THEN withdrawals[w].amount ELSE 0)
             + SumAccepted(S \ {w})

\* C30: the accepted withdrawals never add up to more than the balance the
\* wallet had before them, and the balance is never negative.
C30_NoOverdraft ==
    /\ SumAccepted(Withdrawals) <= InitialWallet.balance
    /\ wallet.balance >= 0

\* the sum of the three wallet fields
WalletTotal(wl) == wl.balance + wl.pendingWithdrawal + wl.totalWithdrawn

\* the sum of the amounts of the withdrawals among S whose payout completed
RECURSIVE SumPaid(_)
SumPaid(S) ==
    IF S = {} THEN 0
    ELSE LET w == CHOOSE v \in S : TRUE
         IN  (IF withdrawals[w].payout = "paid" THEN withdrawals[w].amount ELSE 0)
             + SumPaid(S \ {w})

\* C31: balance + pendingWithdrawal + totalWithdrawn of the wallet never
\* changes, and once no withdrawal or payout is in flight totalWithdrawn
\* is the sum of the amounts whose payout completed.
C31_WalletTotalConserved ==
    /\ WalletTotal(wallet) = WalletTotal(InitialWallet)
    /\ (\A w \in Withdrawals :
           /\ withdrawals[w].pc \in {"idle", "rejected", "accepted"}
           /\ withdrawals[w].payout \in {"none", "scheduled", "failed", "paid"})
          => wallet.totalWithdrawn = InitialWallet.totalWithdrawn + SumPaid(Withdrawals)

\* the minimum amount of a method
MinimumOf(method) == IF method = "bank" THEN MinBankWithdrawal ELSE MinOtherWithdrawal

\* C32: a withdrawal below the minimum of its method is never accepted,
\* and a processWithdrawal call that failed has left no Withdrawal record.
C32_FailedWithdrawalLeavesNothing ==
    \A w \in Withdrawals :
        /\ withdrawals[w].pc \in {"finding", "creating", "saving", "accepted"} =>
               withdrawals[w].amount >= MinimumOf(withdrawals[w].method)
        /\ withdrawals[w].pc = "rejected" => withdrawals[w].record = "none"

====
